---- MODULE Spec2Model ----
(***************************************************************************)
(* Block Whacker: the game engine of web/js/classes/Game.js                *)
(* (BlockWhackerGame), the block catalogue of Block.js, the move validator *)
(* and hint helpers of utils/gameLogic.js, the scoring table of            *)
(* utils/constants.js, the snapping of utils/coordinates.js, the events of *)
(* classes/InputHandler.js, the final-score timer of checkGameOver(), and  *)
(* Block.rotate() of the rotating variant in game.js.                      *)
(*                                                                         *)
(* Block objects live on a heap: availableBlocks holds the three objects   *)
(* of the current set (slots 0..2), and oldBlock is the one object that a  *)
(* reference (draggedBlock, lastPlacement.block) may still hold after      *)
(* generateNewBlocks() replaced the set.  A reference is -1 (null), 0..2   *)
(* (the object in that slot of availableBlocks) or 3 (oldBlock).           *)
(***************************************************************************)
EXTENDS Integers, Sequences, FiniteSets, TLC

VARIABLES
    grid,               \* this.grid[y][x], 0 = empty, else a colour id
    score,              \* this.score
    level,              \* this.level
    linesCleared,       \* this.linesCleared
    availableBlocks,    \* this.availableBlocks: slot -> [shape, colorIndex, used]
    oldBlock,           \* a block object no longer in availableBlocks but still referenced
    selectedBlock,      \* this.selectedBlock (reference)
    selectedBlockIndex, \* this.selectedBlockIndex
    draggedBlock,       \* this.draggedBlock (reference)
    cursorPos,          \* this.cursorPos
    gameOver,           \* this.gameOver
    lastPlacement,      \* this.lastPlacement: <<>> (null) or <<snapshot>>
    canUndo,            \* this.canUndo
    isDragging,         \* this.isDragging
    timers,             \* the setTimeout callbacks of checkGameOver() not yet run, oldest first
    textPopups,         \* effectsManager.textPopups: the final-score readouts, by their score
    last,               \* history: the operation that ran last and what it did
    before,             \* history: what the last placement started from
    ops,                \* history: number of operations run so far
    call                \* history: <<>> or <<the last call of a pure method and its result>>

engine == <<grid, score, level, linesCleared, availableBlocks, oldBlock,
            selectedBlock, selectedBlockIndex, draggedBlock, cursorPos,
            gameOver, lastPlacement, canUndo, isDragging, timers, textPopups>>

vars == <<grid, score, level, linesCleared, availableBlocks, oldBlock,
          selectedBlock, selectedBlockIndex, draggedBlock, cursorPos,
          gameOver, lastPlacement, canUndo, isDragging, timers, textPopups,
          last, before, ops, call>>

-----------------------------------------------------------------------------
(* Bounds of the model *)

\* side of the grid (GAME_CONFIG.GRID_SIZE is 8 in constants.js)
GRID_SIZE == 3

\* operations per run
MaxOps == 6

-----------------------------------------------------------------------------
(* Program constants *)

BASE_SCORE == 100

BLOCKS_PER_SET == 3

\* Block.js: this.shapes, in source order; a shape is a sequence of rows
SHAPES == <<
    << <<1>> >>,
    << <<1, 1>> >>,
    << <<1>>, <<1>> >>,
    << <<1, 1, 1>> >>,
    << <<1>>, <<1>>, <<1>> >>,
    << <<1, 1, 1, 1>> >>,
    << <<1>>, <<1>>, <<1>>, <<1>> >>,
    << <<1, 1>>, <<1, 0>> >>,
    << <<1, 0>>, <<1, 1>> >>,
    << <<0, 1>>, <<1, 1>> >>,
    << <<1, 1>>, <<0, 1>> >>,
    << <<1, 1, 1>>, <<1, 0, 0>> >>,
    << <<1, 1>>, <<0, 1>>, <<0, 1>> >>,
    << <<0, 0, 1>>, <<1, 1, 1>> >>,
    << <<1, 0>>, <<1, 0>>, <<1, 1>> >>,
    << <<1, 1, 1>>, <<0, 0, 1>> >>,
    << <<0, 1>>, <<0, 1>>, <<1, 1>> >>,
    << <<1, 0, 0>>, <<1, 1, 1>> >>,
    << <<1, 1>>, <<1, 0>>, <<1, 0>> >>,
    << <<1, 1>>, <<1, 1>> >>,
    << <<1, 1, 1>>, <<0, 1, 0>> >>,
    << <<0, 1>>, <<1, 1>>, <<0, 1>> >>,
    << <<0, 1, 0>>, <<1, 1, 1>> >>,
    << <<1, 0>>, <<1, 1>>, <<1, 0>> >>,
    << <<1, 1, 0>>, <<0, 1, 1>> >>,
    << <<0, 1>>, <<1, 1>>, <<1, 0>> >>,
    << <<0, 1, 1>>, <<1, 1, 0>> >>,
    << <<1, 0>>, <<1, 1>>, <<0, 1>> >>,
    << <<0, 1, 0>>, <<1, 1, 1>>, <<0, 1, 0>> >>,
    << <<1, 1>>, <<1, 1>>, <<1, 0>> >>,
    << <<1, 1>>, <<1, 1>>, <<0, 1>> >>,
    << <<1, 0>>, <<1, 1>>, <<1, 1>> >>,
    << <<0, 1>>, <<1, 1>>, <<1, 1>> >>
>>

\* a colour id two above the random index
colorIndexOf_offsetTwo(k) == k + 2

\* Math.floor(Math.random() * 8) + 1, for k = Math.floor(Math.random() * 8)
colorIndexOf(k) == k + 1

\* The blocks new Block() creates in this model, as <<index into SHAPES,
\* colorIndex>>: the square in the last colour and the plus in the first
SampledBlocks == {<<20, colorIndexOf(7)>>, <<29, colorIndexOf(0)>>}

-----------------------------------------------------------------------------
(* Values *)

NULL == 0 - 1

\* the reference to oldBlock
OLD == BLOCKS_PER_SET

Idx == 0 .. GRID_SIZE - 1

Slots == 0 .. BLOCKS_PER_SET - 1

Pos(x, y) == [x |-> x, y |-> y]

EmptyGrid == [y \in Idx |-> [x \in Idx |-> 0]]

\* what an unreferenced oldBlock holds
NoBlock == [shape |-> 0, colorIndex |-> 0, used |-> FALSE]

Rows(shape) == Len(shape)

Cols(shape) == Len(shape[1])

\* new Block(): a random shape, a random colour id, used = false; of the
\* sampled blocks, those whose shape fits on an empty grid of this size
NewBlock(sampled) ==
    {[shape |-> b[1], colorIndex |-> b[2], used |-> FALSE] :
        b \in {c \in sampled : Rows(SHAPES[c[1]]) <= GRID_SIZE /\
                                Cols(SHAPES[c[1]]) <= GRID_SIZE}}

\* the block object a reference points to; NoBlock stands for null
Deref(avail, old, ref) ==
    IF ref = NULL THEN NoBlock ELSE IF ref = OLD THEN old ELSE avail[ref]

-----------------------------------------------------------------------------
(* Placement validity *)

\* canPlaceBlock(block, pos) that tests every cell of the mask, occupied or not
canPlaceBlock_testsEveryMaskCell(g, block, pos) ==
    IF block = NoBlock THEN FALSE
    ELSE LET shape == SHAPES[block.shape]
         IN  \A y \in 0 .. Len(shape) - 1 :
                \A x \in 0 .. Len(shape[y + 1]) - 1 :
                    LET gridX == pos.x + x
                        gridY == pos.y + y
                    IN  ~(gridX < 0 \/ gridX >= GRID_SIZE \/
                          gridY < 0 \/ gridY >= GRID_SIZE \/
                          g[gridY][gridX] # 0)

\* BlockWhackerGame.canPlaceBlock(block, pos) on grid g; block is a block
\* object, NoBlock for null.  The loops return false at the first occupied cell
\* of the shape that is out of the grid or on a nonzero cell.
canPlaceBlock(g, block, pos) ==
    IF block = NoBlock THEN FALSE
    ELSE LET shape == SHAPES[block.shape]
         IN  \A y \in 0 .. Len(shape) - 1 :
                \A x \in 0 .. Len(shape[y + 1]) - 1 :
                    shape[y + 1][x + 1] # 0 =>
                        LET gridX == pos.x + x
                            gridY == pos.y + y
                        IN  ~(gridX < 0 \/ gridX >= GRID_SIZE \/
                              gridY < 0 \/ gridY >= GRID_SIZE \/
                              g[gridY][gridX] # 0)

\* canPlaceBlockAt(grid, block, pos) that takes a nonzero grid cell under any
\* cell of the mask, occupied or not, as a collision
canPlaceBlockAt_testsEveryMaskCell(g, block, pos) ==
    IF block = NoBlock \/ block.shape = 0 THEN FALSE
    ELSE \A y \in 0 .. Len(SHAPES[block.shape]) - 1 :
            \A x \in 0 .. Len(SHAPES[block.shape][y + 1]) - 1 :
                LET gridX == pos.x + x
                    gridY == pos.y + y
                IN  IF SHAPES[block.shape][y + 1][x + 1] # 0
                    THEN ~(gridX < 0 \/ gridX >= GRID_SIZE \/
                           gridY < 0 \/ gridY >= GRID_SIZE \/
                           g[gridY][gridX] # 0)
                    ELSE ~(gridX \in Idx /\ gridY \in Idx /\ g[gridY][gridX] # 0)

\* gameLogic.canPlaceBlockAt(grid, block, pos); block is a block object, and
\* NoBlock stands for a missing block or a block without a shape
canPlaceBlockAt(g, block, pos) ==
    IF block = NoBlock \/ block.shape = 0 THEN FALSE
    ELSE \A y \in 0 .. Len(SHAPES[block.shape]) - 1 :
            \A x \in 0 .. Len(SHAPES[block.shape][y + 1]) - 1 :
                SHAPES[block.shape][y + 1][x + 1] # 0 =>
                    LET gridX == pos.x + x
                        gridY == pos.y + y
                    IN  ~(gridX < 0 \/ gridX >= GRID_SIZE \/
                          gridY < 0 \/ gridY >= GRID_SIZE \/
                          g[gridY][gridX] # 0)

\* hasAnyValidMoves without its early return for an empty list of active blocks
hasAnyValidMoves_noEarlyReturn(g, avail) ==
    \E i \in {j \in DOMAIN avail : ~avail[j].used} :
        \E y \in 0 .. GRID_SIZE - 1 :
            \E x \in 0 .. GRID_SIZE - 1 :
                canPlaceBlockAt(g, avail[i], Pos(x, y))

\* gameLogic.hasAnyValidMoves(grid, availableBlocks)
hasAnyValidMoves(g, avail) ==
    LET activeBlocks == {i \in DOMAIN avail : ~avail[i].used}
    IN  IF activeBlocks = {} THEN TRUE
        ELSE \E i \in activeBlocks :
                \E y \in 0 .. GRID_SIZE - 1 :
                    \E x \in 0 .. GRID_SIZE - 1 :
                        canPlaceBlockAt(g, avail[i], Pos(x, y))

-----------------------------------------------------------------------------
(* Writing a block, clearing lines, scoring *)

\* placeBlock: the forEach that writes draggedBlock.colorIndex into the grid
WriteShape(g, shape, pos, colorIndex) ==
    [y \in Idx |-> [x \in Idx |->
        LET dy == y - pos.y
            dx == x - pos.x
        IN  IF dy >= 0 /\ dy < Len(shape) /\ dx >= 0 /\ dx < Len(shape[dy + 1])
               /\ shape[dy + 1][dx + 1] # 0
            THEN colorIndex
            ELSE g[y][x]]]

\* checkAndClearLines: rows whose every cell is nonzero
ClearedRows(g) == {y \in Idx : \A x \in Idx : g[y][x] # 0}

\* checkAndClearLines: columns whose every cell is nonzero
ClearedCols(g) == {x \in Idx : \A y \in Idx : g[y][x] # 0}

\* the grid when only the first full row, or else the first full column, is
\* set to 0
ClearLines_firstLineOnly(g, rows, cols) ==
    [y \in Idx |-> [x \in Idx |->
        IF rows # {}
        THEN IF y \in rows /\ \A r \in rows : y <= r THEN 0 ELSE g[y][x]
        ELSE IF x \in cols /\ \A c \in cols : x <= c THEN 0 ELSE g[y][x]]]

\* checkAndClearLines: the grid after both forEach clears
ClearLines(g, rows, cols) ==
    [y \in Idx |-> [x \in Idx |-> IF y \in rows \/ x \in cols THEN 0 ELSE g[y][x]]]

\* the multiplier table with 10 for five lines and more
Multiplier_defaultTen(n) ==
    CASE n = 1 -> 1
      [] n = 2 -> 3
      [] n = 3 -> 6
      [] OTHER -> 10

\* SCORING.MULTIPLIERS[linesCleared] || SCORING.MULTIPLIERS.default
Multiplier(n) ==
    CASE n = 1 -> 1
      [] n = 2 -> 3
      [] n = 3 -> 6
      [] n = 4 -> 10
      [] OTHER -> 15

\* updateScore(linesCleared): the new score
updateScore(s, lvl, n) == s + BASE_SCORE * Multiplier(n) * lvl

\* checkAndClearLines() that looks for full columns after clearing the full rows
checkAndClearLines_rowsFirst(g, s, lvl, lc) ==
    LET rows == ClearedRows(g)
        g1   == ClearLines(g, rows, {})
        cols == ClearedCols(g1)
        n    == Cardinality(rows) + Cardinality(cols)
    IN  [grid         |-> ClearLines(g1, {}, cols),
         score        |-> IF n > 0 THEN updateScore(s, lvl, n) ELSE s,
         linesCleared |-> IF n > 0 THEN lc + n ELSE lc,
         lines        |-> n]

\* checkAndClearLines(): the grid, score and linesCleared it leaves, and the
\* number of lines it found
checkAndClearLines(g, s, lvl, lc) ==
    LET rows == ClearedRows(g)
        cols == ClearedCols(g)
        n    == Cardinality(rows) + Cardinality(cols)
    IN  [grid         |-> ClearLines(g, rows, cols),
         score        |-> IF n > 0 THEN updateScore(s, lvl, n) ELSE s,
         linesCleared |-> IF n > 0 THEN lc + n ELSE lc,
         lines        |-> n]

-----------------------------------------------------------------------------
(* The engine state as one record, and the methods as functions of it *)

Cur ==
    [grid |-> grid, score |-> score, level |-> level, linesCleared |-> linesCleared,
     availableBlocks |-> availableBlocks, oldBlock |-> oldBlock,
     selectedBlock |-> selectedBlock, selectedBlockIndex |-> selectedBlockIndex,
     draggedBlock |-> draggedBlock, cursorPos |-> cursorPos, gameOver |-> gameOver,
     lastPlacement |-> lastPlacement, canUndo |-> canUndo, isDragging |-> isDragging,
     timers |-> timers, textPopups |-> textPopups]

\* a reference held across generateNewBlocks(): the object leaves the set
Detach(ref) == IF ref \in Slots THEN OLD ELSE ref

\* oldBlock is dropped once neither draggedBlock nor lastPlacement.block holds it
Collect(st) ==
    IF st.draggedBlock = OLD \/
       (st.lastPlacement # <<>> /\ st.lastPlacement[1].block = OLD)
    THEN st
    ELSE [st EXCEPT !.oldBlock = NoBlock]

\* block.used = v through a reference
SetUsed(st, ref, v) ==
    IF ref = OLD
    THEN [st EXCEPT !.oldBlock.used = v]
    ELSE [st EXCEPT !.availableBlocks[ref].used = v]

\* generateNewBlocks(): availableBlocks = [new Block(), new Block(), new Block()];
\* nb are the three fresh objects.  draggedBlock and lastPlacement.block keep
\* pointing to the objects they held.
generateNewBlocks(st, nb) ==
    LET held == IF st.draggedBlock \in Slots THEN st.draggedBlock
                ELSE IF st.lastPlacement # <<>> /\ st.lastPlacement[1].block \in Slots
                     THEN st.lastPlacement[1].block
                     ELSE NULL
    IN  [st EXCEPT
            !.availableBlocks = nb,
            !.oldBlock = IF held # NULL THEN st.availableBlocks[held] ELSE st.oldBlock,
            !.draggedBlock = Detach(st.draggedBlock),
            !.lastPlacement =
                IF st.lastPlacement = <<>> THEN <<>>
                ELSE << [st.lastPlacement[1] EXCEPT
                            !.block = Detach(st.lastPlacement[1].block)] >>]

\* checkGameOver(); setTimeout(..., 500) queues the callback that shows the
\* final score, and held is the score at that moment (history, the callback
\* itself holds only this)
checkGameOver(st) ==
    IF ~hasAnyValidMoves(st.grid, st.availableBlocks)
    THEN [st EXCEPT !.gameOver = TRUE,
                    !.timers = Append(@, [held |-> st.score])]
    ELSE st

\* the callback of the setTimeout of checkGameOver(), run for the oldest
\* timer: createTextPopup(`Final Score: ${this.score}`, ...)
finalScoreTimeout(st) ==
    [st EXCEPT !.timers = Tail(@),
               !.textPopups = Append(@, st.score)]

\* placeBlock() without its canPlaceBlock() test
PlaceAccepted_noFitTest(st) ==
    ~(st.draggedBlock = NULL \/
      Deref(st.availableBlocks, st.oldBlock, st.draggedBlock).used)

\* placeBlock(): whether it gets past both tests and places the block
PlaceAccepted(st) ==
    /\ ~(st.draggedBlock = NULL \/
         Deref(st.availableBlocks, st.oldBlock, st.draggedBlock).used)
    /\ canPlaceBlock(st.grid,
                     Deref(st.availableBlocks, st.oldBlock, st.draggedBlock),
                     st.cursorPos)

\* placeBlock() that keeps a snapshot that undo() has not consumed
PlaceAndClear_keepsHeldSnapshot(st) ==
    LET block == Deref(st.availableBlocks, st.oldBlock, st.draggedBlock)
        snap  == [grid |-> st.grid, block |-> st.draggedBlock,
                  blockIndex |-> st.selectedBlockIndex, position |-> st.cursorPos,
                  score |-> st.score, linesCleared |-> st.linesCleared]
        written == WriteShape(st.grid, SHAPES[block.shape], st.cursorPos,
                              block.colorIndex)
        c == checkAndClearLines(written, st.score, st.level, st.linesCleared)
        marked == SetUsed(st, st.draggedBlock, TRUE)
    IN  [marked EXCEPT
            !.lastPlacement = IF st.canUndo /\ st.lastPlacement # <<>>
                              THEN st.lastPlacement ELSE <<snap>>,
            !.canUndo = TRUE,
            !.selectedBlock = NULL,
            !.selectedBlockIndex = NULL,
            !.grid = c.grid,
            !.score = c.score,
            !.linesCleared = c.linesCleared]

\* placeBlock() that keeps selectedBlock and selectedBlockIndex
PlaceAndClear_keepsSelection(st) ==
    LET block == Deref(st.availableBlocks, st.oldBlock, st.draggedBlock)
        snap  == [grid |-> st.grid, block |-> st.draggedBlock,
                  blockIndex |-> st.selectedBlockIndex, position |-> st.cursorPos,
                  score |-> st.score, linesCleared |-> st.linesCleared]
        written == WriteShape(st.grid, SHAPES[block.shape], st.cursorPos,
                              block.colorIndex)
        c == checkAndClearLines(written, st.score, st.level, st.linesCleared)
        marked == SetUsed(st, st.draggedBlock, TRUE)
    IN  [marked EXCEPT
            !.lastPlacement = <<snap>>,
            !.canUndo = TRUE,
            !.grid = c.grid,
            !.score = c.score,
            !.linesCleared = c.linesCleared]

\* placeBlock(), from the snapshot to checkAndClearLines()
PlaceAndClear(st) ==
    LET block == Deref(st.availableBlocks, st.oldBlock, st.draggedBlock)
        snap  == [grid |-> st.grid, block |-> st.draggedBlock,
                  blockIndex |-> st.selectedBlockIndex, position |-> st.cursorPos,
                  score |-> st.score, linesCleared |-> st.linesCleared]
        written == WriteShape(st.grid, SHAPES[block.shape], st.cursorPos,
                              block.colorIndex)
        c == checkAndClearLines(written, st.score, st.level, st.linesCleared)
        marked == SetUsed(st, st.draggedBlock, TRUE)
    IN  [marked EXCEPT
            !.lastPlacement = <<snap>>,
            !.canUndo = TRUE,
            !.selectedBlock = NULL,
            !.selectedBlockIndex = NULL,
            !.grid = c.grid,
            !.score = c.score,
            !.linesCleared = c.linesCleared]

\* a refill test that holds as soon as one block is used
AllUsed_someUsed(st) == \E i \in Slots : st.availableBlocks[i].used

\* the availableBlocks.every(block => block.used) test of placeBlock()
AllUsed(st) == \A i \in Slots : st.availableBlocks[i].used

\* placeBlock() with checkGameOver() called before the refill
placeBlockMethod_checksBeforeRefill(st, nb) ==
    IF ~PlaceAccepted(st) THEN st
    ELSE LET s1 == checkGameOver(PlaceAndClear(st))
             s2 == IF AllUsed(s1) THEN generateNewBlocks(s1, nb) ELSE s1
         IN  Collect(s2)

\* placeBlock(); nb are the blocks a refill would create
placeBlockMethod(st, nb) ==
    IF ~PlaceAccepted(st) THEN st
    ELSE LET s1 == PlaceAndClear(st)
             s2 == IF AllUsed(s1) THEN generateNewBlocks(s1, nb) ELSE s1
         IN  Collect(checkGameOver(s2))

\* tryPlaceBlock()
tryPlaceBlockMethod(st, nb) ==
    IF st.draggedBlock # NULL /\
       canPlaceBlock(st.grid,
                     Deref(st.availableBlocks, st.oldBlock, st.draggedBlock),
                     st.cursorPos)
    THEN placeBlockMethod(st, nb)
    ELSE st

\* undo(): whether it gets past its test
UndoAccepted(st) == ~(~st.canUndo \/ st.lastPlacement = <<>>)

\* undo() that also sets gameOver to false
undoMethod_clearsGameOver(st) ==
    IF ~UndoAccepted(st) THEN st
    ELSE LET lp == st.lastPlacement[1]
         IN  [SetUsed(st, lp.block, FALSE) EXCEPT
                 !.grid = lp.grid,
                 !.score = lp.score,
                 !.linesCleared = lp.linesCleared,
                 !.gameOver = FALSE,
                 !.canUndo = FALSE]

\* undo() that leaves the score as it is
undoMethod_keepsScore(st) ==
    IF ~UndoAccepted(st) THEN st
    ELSE LET lp == st.lastPlacement[1]
         IN  [SetUsed(st, lp.block, FALSE) EXCEPT
                 !.grid = lp.grid,
                 !.linesCleared = lp.linesCleared,
                 !.canUndo = FALSE]

\* undo()
undoMethod(st) ==
    IF ~UndoAccepted(st) THEN st
    ELSE LET lp == st.lastPlacement[1]
         IN  [SetUsed(st, lp.block, FALSE) EXCEPT
                 !.grid = lp.grid,
                 !.score = lp.score,
                 !.linesCleared = lp.linesCleared,
                 !.canUndo = FALSE]

\* resetGame() that keeps the grid
resetGameMethod_keepsGrid(st, nb) ==
    Collect(generateNewBlocks(
        [st EXCEPT
            !.score = 0,
            !.level = 1,
            !.linesCleared = 0,
            !.selectedBlock = NULL,
            !.selectedBlockIndex = NULL,
            !.cursorPos = Pos(0, 0),
            !.gameOver = FALSE,
            !.textPopups = <<>>,
            !.lastPlacement = <<>>,
            !.canUndo = FALSE],
        nb))

\* resetGame() without its "Reset undo state" lines
resetGameMethod_keepsUndo(st, nb) ==
    Collect(generateNewBlocks(
        [st EXCEPT
            !.score = 0,
            !.level = 1,
            !.linesCleared = 0,
            !.grid = EmptyGrid,
            !.selectedBlock = NULL,
            !.selectedBlockIndex = NULL,
            !.cursorPos = Pos(0, 0),
            !.gameOver = FALSE,
            !.textPopups = <<>>],
        nb))

\* resetGame(); nb are the blocks generateNewBlocks() creates
resetGameMethod(st, nb) ==
    Collect(generateNewBlocks(
        [st EXCEPT
            !.score = 0,
            !.level = 1,
            !.linesCleared = 0,
            !.grid = EmptyGrid,
            !.selectedBlock = NULL,
            !.selectedBlockIndex = NULL,
            !.cursorPos = Pos(0, 0),
            !.gameOver = FALSE,
            !.textPopups = <<>>,
            !.lastPlacement = <<>>,
            !.canUndo = FALSE],
        nb))

\* selectBlock(index) without the test of the used flag
selectBlockMethod_acceptsUsed(st, index) ==
    IF index >= 0 /\ index < BLOCKS_PER_SET
    THEN Collect([st EXCEPT
            !.selectedBlock = index,
            !.selectedBlockIndex = index,
            !.draggedBlock = index])
    ELSE st

\* selectBlock(index)
selectBlockMethod(st, index) ==
    IF index >= 0 /\ index < BLOCKS_PER_SET /\ ~st.availableBlocks[index].used
    THEN Collect([st EXCEPT
            !.selectedBlock = index,
            !.selectedBlockIndex = index,
            !.draggedBlock = index])
    ELSE st

Clamp(v) ==
    LET m == IF GRID_SIZE - 1 < v THEN GRID_SIZE - 1 ELSE v
    IN  IF 0 > m THEN 0 ELSE m

\* moveCursor(dx, dy)
moveCursorMethod(st, dx, dy) ==
    [st EXCEPT !.cursorPos = Pos(Clamp(st.cursorPos.x + dx), Clamp(st.cursorPos.y + dy))]

-----------------------------------------------------------------------------
(* Mouse, touch and keyboard input: InputHandler and the cursor methods *)

Abs(v) == IF v < 0 THEN 0 - v ELSE v

\* findNearestValidPosition: const maxDistance
maxDistance == 3

\* findNearestValidPosition: the offsets <<dx, dy>> with |dx| + |dy| = distance
Ring(distance) ==
    {c \in ((0 - distance) .. distance) \X ((0 - distance) .. distance) :
        Abs(c[1]) + Abs(c[2]) = distance}

\* findNearestValidPosition: the rank of an offset in the loops, dy outside
LoopRank(c, distance) == (c[2] + distance) * (2 * distance + 1) + (c[1] + distance)

\* the loops of one distance that keep the first valid position they meet
NearestAt_firstInLoop(g, block, targetPos, distance) ==
    LET valid == {c \in Ring(distance) :
                    canPlaceBlock(g, block, Pos(targetPos.x + c[1], targetPos.y + c[2]))}
    IN  IF valid = {} THEN <<>>
        ELSE LET best == CHOOSE c \in valid : \A e \in valid :
                            LoopRank(c, distance) <= LoopRank(e, distance)
             IN  << Pos(targetPos.x + best[1], targetPos.y + best[2]) >>

\* findNearestValidPosition: bestPos after the loops of one distance, <<>> for
\* null; dist < bestDist compares square roots of dx * dx + dy * dy, and among
\* equal ones the first in loop order stays
NearestAt(g, block, targetPos, distance) ==
    LET valid == {c \in Ring(distance) :
                    canPlaceBlock(g, block, Pos(targetPos.x + c[1], targetPos.y + c[2]))}
        Dist2(c) == c[1] * c[1] + c[2] * c[2]
    IN  IF valid = {} THEN <<>>
        ELSE LET best == CHOOSE c \in valid : \A e \in valid :
                            \/ c = e
                            \/ Dist2(c) < Dist2(e)
                            \/ Dist2(c) = Dist2(e) /\
                               LoopRank(c, distance) < LoopRank(e, distance)
             IN  << Pos(targetPos.x + best[1], targetPos.y + best[2]) >>

RECURSIVE NearestFrom(_, _, _, _)
\* findNearestValidPosition: the loop over distance, from the given one on
NearestFrom(g, block, targetPos, distance) ==
    IF distance > maxDistance THEN <<>>
    ELSE LET bestPos == NearestAt(g, block, targetPos, distance)
         IN  IF bestPos # <<>> THEN bestPos
             ELSE NearestFrom(g, block, targetPos, distance + 1)

\* coordinates.findNearestValidPosition(block, targetPos, canPlaceBlockFn) with
\* the canPlaceBlock of the game on grid g; <<>> for null, else <<position>>
findNearestValidPosition(g, block, targetPos) == NearestFrom(g, block, targetPos, 1)

\* updateCursorFromMouse(); gridPos is what screenToGrid returns for the mouse
\* position: <<>> for null, else <<cell>>
updateCursorFromMouseMethod(st, gridPos) ==
    IF st.isDragging /\ st.draggedBlock # NULL
    THEN IF gridPos = <<>> THEN st
         ELSE LET block == Deref(st.availableBlocks, st.oldBlock, st.draggedBlock)
              IN  IF canPlaceBlock(st.grid, block, gridPos[1])
                  THEN [st EXCEPT !.cursorPos = gridPos[1]]
                  ELSE LET nearest == findNearestValidPosition(st.grid, block, gridPos[1])
                       IN  IF nearest # <<>>
                           THEN [st EXCEPT !.cursorPos = nearest[1]]
                           ELSE st
    ELSE IF gridPos # <<>> THEN [st EXCEPT !.cursorPos = gridPos[1]] ELSE st

\* InputHandler.startDragFromPreview(e, index), index of one of the previews
startDragFromPreviewMethod(st, index, gridPos) ==
    IF st.availableBlocks[index].used THEN st
    ELSE updateCursorFromMouseMethod(
            Collect([st EXCEPT
                !.selectedBlock = index,
                !.selectedBlockIndex = index,
                !.draggedBlock = index,
                !.isDragging = TRUE]),
            gridPos)

\* InputHandler.handleCanvasMouseMove(e)
handleCanvasMouseMoveMethod(st, gridPos) ==
    IF st.isDragging THEN updateCursorFromMouseMethod(st, gridPos) ELSE st

\* InputHandler.handleCanvasMouseUp(e), handleCanvasTouchEnd(e)
handleCanvasMouseUpMethod(st, nb) ==
    IF st.isDragging /\ st.draggedBlock # NULL
    THEN LET block == Deref(st.availableBlocks, st.oldBlock, st.draggedBlock)
             s1 == IF canPlaceBlock(st.grid, block, st.cursorPos)
                   THEN tryPlaceBlockMethod(st, nb)
                   ELSE st
         IN  Collect([s1 EXCEPT !.isDragging = FALSE, !.draggedBlock = NULL])
    ELSE st

\* InputHandler.handleKeyDown(e): whether Space or Enter calls tryPlaceBlock()
KeyPlaces(st) ==
    /\ st.selectedBlock # NULL
    /\ ~Deref(st.availableBlocks, st.oldBlock, st.selectedBlock).used

\* InputHandler.handleKeyDown(e) for e.key = key
handleKeyDownMethod(st, key, nb) ==
    CASE key = "ArrowUp"    -> moveCursorMethod(st, 0, 0 - 1)
      [] key = "ArrowDown"  -> moveCursorMethod(st, 0, 1)
      [] key = "ArrowLeft"  -> moveCursorMethod(st, 0 - 1, 0)
      [] key = "ArrowRight" -> moveCursorMethod(st, 1, 0)
      [] key \in {" ", "Enter"} ->
            IF KeyPlaces(st) THEN tryPlaceBlockMethod(st, nb) ELSE st
      [] key = "Escape" ->
            [st EXCEPT !.selectedBlock = NULL, !.selectedBlockIndex = NULL]
      [] OTHER -> st

-----------------------------------------------------------------------------
(* The state machine: one step per public method of BlockWhackerGame *)

\* the block sets generateNewBlocks() can create from the sampled blocks
NewSets(sampled) == [Slots -> NewBlock(sampled)]

\* the sets to try in a step: all of them if the step refills, else one
SetsFor(sampled, refills) ==
    IF refills THEN NewSets(sampled) ELSE {[i \in Slots |-> NoBlock]}

\* the engine state becomes st
Apply(st) ==
    \E s \in {st} :
        /\ grid' = s.grid
        /\ score' = s.score
        /\ level' = s.level
        /\ linesCleared' = s.linesCleared
        /\ availableBlocks' = s.availableBlocks
        /\ oldBlock' = s.oldBlock
        /\ selectedBlock' = s.selectedBlock
        /\ selectedBlockIndex' = s.selectedBlockIndex
        /\ draggedBlock' = s.draggedBlock
        /\ cursorPos' = s.cursorPos
        /\ gameOver' = s.gameOver
        /\ lastPlacement' = s.lastPlacement
        /\ canUndo' = s.canUndo
        /\ isDragging' = s.isDragging
        /\ timers' = s.timers
        /\ textPopups' = s.textPopups

\* what a placement started from: the grid, the counters and the block set
Started(st) ==
    [grid |-> st.grid, score |-> st.score, level |-> st.level,
     linesCleared |-> st.linesCleared, availableBlocks |-> st.availableBlocks]

\* what the history records of a step: the method, whether it placed a block
\* (placeBlock, tryPlaceBlock), and then the lines found and whether the set
\* was refilled; the same of the step before it, with the gameOver flag this
\* step started from; the number of undo() calls
\* since the last placement or reset (2 for more); and what the last placement
\* since the last reset started from
Did(op, placed, lines, refilled, from) ==
    /\ last' = [op |-> op, placed |-> placed, lines |-> lines, refilled |-> refilled,
                prev |-> [placed |-> last.placed, lines |-> last.lines,
                          gameOver |-> gameOver],
                undos |-> IF placed \/ op = "resetGame" THEN 0
                          ELSE IF op = "undo" /\ last.undos < 2 THEN last.undos + 1
                          ELSE last.undos]
    /\ before' = IF placed THEN <<Started(from)>>
                 ELSE IF op = "resetGame" THEN <<>> ELSE before
    /\ ops' = ops + 1
    /\ call' = call

\* the state the constructor and init() leave, on one of the given grids and
\* with one of the given block sets
InitFrom(grids, sets) ==
    /\ grid \in grids
    /\ score = 0
    /\ level = 1
    /\ linesCleared = 0
    /\ availableBlocks \in sets
    /\ oldBlock = NoBlock
    /\ selectedBlock = NULL
    /\ selectedBlockIndex = NULL
    /\ draggedBlock = NULL
    /\ cursorPos = Pos(0, 0)
    /\ gameOver = FALSE
    /\ lastPlacement = <<>>
    /\ canUndo = FALSE
    /\ isDragging = FALSE
    /\ timers = <<>>
    /\ textPopups = <<>>
    /\ last = [op |-> "init", placed |-> FALSE, lines |-> 0, refilled |-> FALSE,
               prev |-> [placed |-> FALSE, lines |-> 0, gameOver |-> FALSE],
               undos |-> 0]
    /\ before = <<>>
    /\ ops = 0
    /\ call = <<>>

\* the state the constructor and init() leave, on one of the given grids
InitOn(grids, sampled) == InitFrom(grids, NewSets(sampled))

\* the state the constructor and init() leave
InitWith(sampled) == InitOn({EmptyGrid}, sampled)

\* the lines a placement from state st finds
LinesFound(st) ==
    LET block == Deref(st.availableBlocks, st.oldBlock, st.draggedBlock)
        written == WriteShape(st.grid, SHAPES[block.shape], st.cursorPos,
                              block.colorIndex)
    IN  Cardinality(ClearedRows(written)) + Cardinality(ClearedCols(written))

SelectStep(maxOps) ==
    /\ ops < maxOps
    /\ \E index \in (0 - 1) .. BLOCKS_PER_SET :
        /\ Apply(selectBlockMethod(Cur, index))
        /\ Did("selectBlock", FALSE, 0, FALSE, Cur)

MoveStep(maxOps) ==
    /\ ops < maxOps
    /\ \E dx \in (1 - GRID_SIZE) .. (GRID_SIZE - 1) :
        \E dy \in (1 - GRID_SIZE) .. (GRID_SIZE - 1) :
            /\ Apply(moveCursorMethod(Cur, dx, dy))
            /\ Did("moveCursor", FALSE, 0, FALSE, Cur)

PlaceStep(sampled, maxOps) ==
    /\ ops < maxOps
    /\ LET ok == PlaceAccepted(Cur)
           refills == ok /\ AllUsed(PlaceAndClear(Cur))
       IN  \E nb \in SetsFor(sampled, refills) :
            /\ Apply(placeBlockMethod(Cur, nb))
            /\ Did("placeBlock", ok, IF ok THEN LinesFound(Cur) ELSE 0, refills, Cur)

TryPlaceStep(sampled, maxOps) ==
    /\ ops < maxOps
    /\ LET ok == PlaceAccepted(Cur)
           refills == ok /\ AllUsed(PlaceAndClear(Cur))
       IN  \E nb \in SetsFor(sampled, refills) :
            /\ Apply(tryPlaceBlockMethod(Cur, nb))
            /\ Did("tryPlaceBlock", ok, IF ok THEN LinesFound(Cur) ELSE 0, refills, Cur)

UndoStep(maxOps) ==
    /\ ops < maxOps
    /\ Apply(undoMethod(Cur))
    /\ Did("undo", FALSE, 0, FALSE, Cur)

ResetStep(sampled, maxOps) ==
    /\ ops < maxOps
    /\ \E nb \in NewSets(sampled) :
        /\ Apply(resetGameMethod(Cur, nb))
        /\ Did("resetGame", FALSE, 0, FALSE, Cur)

\* the browser runs the callback of the oldest pending timer
TimeoutStep(maxOps) ==
    /\ ops < maxOps
    /\ timers # <<>>
    /\ Apply(finalScoreTimeout(Cur))
    /\ Did("finalScoreTimeout", FALSE, 0, FALSE, Cur)

\* a client's whole move, the spec's commitPlacement(blockIndex, anchor):
\* selectBlock(index), moveCursor to the anchor, tryPlaceBlock()
CommitStep(sampled, anchors, maxOps) ==
    /\ ops < maxOps
    /\ \E index \in Slots : \E a \in anchors :
        \E sel \in {selectBlockMethod(Cur, index)} :
        \E mid \in {moveCursorMethod(sel, a.x - sel.cursorPos.x, a.y - sel.cursorPos.y)} :
        \E ok \in {PlaceAccepted(mid)} :
        \E refills \in {ok /\ AllUsed(PlaceAndClear(mid))} :
        \E nb \in SetsFor(sampled, refills) :
            /\ Apply(tryPlaceBlockMethod(mid, nb))
            /\ Did("tryPlaceBlock", ok, IF ok THEN LinesFound(mid) ELSE 0,
                   refills, mid)

-----------------------------------------------------------------------------
(* Spec: every method, blocks drawn from SampledBlocks, MaxOps operations *)

Init == InitWith(SampledBlocks)

selectBlock == SelectStep(MaxOps)

moveCursor == MoveStep(MaxOps)

placeBlock == PlaceStep(SampledBlocks, MaxOps)

tryPlaceBlock == TryPlaceStep(SampledBlocks, MaxOps)

undo == UndoStep(MaxOps)

resetGame == ResetStep(SampledBlocks, MaxOps)

Next ==
    \/ selectBlock
    \/ moveCursor
    \/ placeBlock
    \/ tryPlaceBlock
    \/ undo
    \/ resetGame

Spec == Init /\ [][Next]_vars

-----------------------------------------------------------------------------
(* SpecGame: whole moves, undo and reset; a longer game on more blocks *)

\* moves, undos and resets per run
MaxGameOps == 5

\* the single cell and the plus
GameBlocks == {<<1, colorIndexOf(7)>>, <<29, colorIndexOf(0)>>}

\* the anchors of the moves: the corners of the grid
GameAnchors == {Pos(x, y) : x \in {0, GRID_SIZE - 1}, y \in {0, GRID_SIZE - 1}}

InitGame == InitWith(GameBlocks)

commitPlacement == CommitStep(GameBlocks, GameAnchors, MaxGameOps)

undoGame == UndoStep(MaxGameOps)

resetGameGame == ResetStep(GameBlocks, MaxGameOps)

NextGame ==
    \/ commitPlacement
    \/ undoGame
    \/ resetGameGame

SpecGame == InitGame /\ [][NextGame]_vars

-----------------------------------------------------------------------------
(* SpecFit: canPlaceBlock(block, pos) called with any catalogue shape at any *)
(* anchor in and around the grid, on grids holding a few blocks              *)

\* occupied cells of the grids
MaxFilled == 2

\* the grids with at most MaxFilled occupied cells
FitGrids ==
    {[y \in Idx |-> [x \in Idx |-> IF <<x, y>> \in cells THEN 8 ELSE 0]] :
        cells \in {c \in SUBSET (Idx \X Idx) : Cardinality(c) <= MaxFilled}}

\* the anchors of the calls: the grid and one cell around it
FitAnchors == (0 - 1) .. GRID_SIZE

InitFit == InitOn(FitGrids, {<<1, 1>>})

\* one call per run
canPlaceBlockCall ==
    /\ call = <<>>
    /\ \E s \in DOMAIN SHAPES : \E x \in FitAnchors : \E y \in FitAnchors :
        /\ call' = << [shape |-> s, pos |-> Pos(x, y),
                       ret |-> canPlaceBlock(grid,
                                   [shape |-> s, colorIndex |-> 1, used |-> FALSE],
                                   Pos(x, y))] >>
        /\ UNCHANGED <<engine, last, before, ops>>

NextFit == canPlaceBlockCall

SpecFit == InitFit /\ [][NextFit]_vars

-----------------------------------------------------------------------------
(* SpecInput: the game driven by the events InputHandler listens to: keys,   *)
(* mouse down on a block preview, mouse move, mouse up, the undo and reset   *)
(* buttons                                                                   *)

\* events per run
MaxInputOps == 5

\* what screenToGrid can return for a mouse position
GridPositions == {<<>>} \cup {<< Pos(x, y) >> : x \in Idx, y \in Idx}

\* the keys handleKeyDown knows
Keys == {"ArrowUp", "ArrowDown", "ArrowLeft", "ArrowRight", " ", "Enter", "Escape"}

KeyDownStep(sampled, maxOps) ==
    /\ ops < maxOps
    /\ \E key \in Keys :
        LET places == key \in {" ", "Enter"}
            ok == places /\ KeyPlaces(Cur) /\ PlaceAccepted(Cur)
            refills == ok /\ AllUsed(PlaceAndClear(Cur))
        IN  \E nb \in SetsFor(sampled, refills) :
                /\ Apply(handleKeyDownMethod(Cur, key, nb))
                /\ Did(IF places THEN "keyPlace" ELSE "keyDown", ok,
                       IF ok THEN LinesFound(Cur) ELSE 0, refills, Cur)

StartDragStep(maxOps) ==
    /\ ops < maxOps
    /\ \E index \in Slots : \E gridPos \in GridPositions :
        /\ Apply(startDragFromPreviewMethod(Cur, index, gridPos))
        /\ Did("startDragFromPreview", FALSE, 0, FALSE, Cur)

MouseMoveStep(maxOps) ==
    /\ ops < maxOps
    /\ \E gridPos \in GridPositions :
        /\ Apply(handleCanvasMouseMoveMethod(Cur, gridPos))
        /\ Did("handleCanvasMouseMove", FALSE, 0, FALSE, Cur)

MouseUpStep(sampled, maxOps) ==
    /\ ops < maxOps
    /\ LET ok == isDragging /\ PlaceAccepted(Cur)
           refills == ok /\ AllUsed(PlaceAndClear(Cur))
       IN  \E nb \in SetsFor(sampled, refills) :
            /\ Apply(handleCanvasMouseUpMethod(Cur, nb))
            /\ Did("handleCanvasMouseUp", ok, IF ok THEN LinesFound(Cur) ELSE 0,
                   refills, Cur)

InitInput == InitWith(SampledBlocks)

handleKeyDown == KeyDownStep(SampledBlocks, MaxInputOps)

startDragFromPreview == StartDragStep(MaxInputOps)

handleCanvasMouseMove == MouseMoveStep(MaxInputOps)

handleCanvasMouseUp == MouseUpStep(SampledBlocks, MaxInputOps)

undoBtnClick == UndoStep(MaxInputOps)

resetBtnClick == ResetStep(SampledBlocks, MaxInputOps)

NextInput ==
    \/ handleKeyDown
    \/ startDragFromPreview
    \/ handleCanvasMouseMove
    \/ handleCanvasMouseUp
    \/ undoBtnClick
    \/ resetBtnClick

SpecInput == InitInput /\ [][NextInput]_vars

-----------------------------------------------------------------------------
(* SpecMoves: hasAnyValidMoves(grid, availableBlocks) called twice in a row  *)
(* on grids holding a few blocks and sets of used and unused blocks          *)

\* a call of hasAnyValidMoves that marks every block as used
hasAnyValidMovesRun_marksUsed(g, avail) ==
    [ret             |-> hasAnyValidMoves(g, avail),
     grid            |-> g,
     availableBlocks |-> [i \in DOMAIN avail |-> [avail[i] EXCEPT !.used = TRUE]]]

\* a call of hasAnyValidMoves(grid, availableBlocks): what it returns, and the
\* grid and the blocks as it leaves them; neither it nor canPlaceBlockAt
\* assigns to a cell or to a field of a block
hasAnyValidMovesRun(g, avail) ==
    [ret |-> hasAnyValidMoves(g, avail), grid |-> g, availableBlocks |-> avail]

\* the blocks of the sets: the single cell, the square and the plus, used or not
MoveBlocks ==
    {[shape |-> s, colorIndex |-> 1, used |-> u] : s \in {1, 20, 29}, u \in BOOLEAN}

InitMoves == InitFrom(FitGrids, [Slots -> MoveBlocks])

\* two calls per run; call records the arguments and the result of each
hasAnyValidMovesCall ==
    /\ Len(call) < 2
    /\ \E run \in {hasAnyValidMovesRun(grid, availableBlocks)} :
        /\ call' = Append(call, [grid |-> grid, blocks |-> availableBlocks,
                                 ret |-> run.ret])
        /\ grid' = run.grid
        /\ availableBlocks' = run.availableBlocks
    /\ UNCHANGED <<score, level, linesCleared, oldBlock, selectedBlock,
                   selectedBlockIndex, draggedBlock, cursorPos, gameOver,
                   lastPlacement, canUndo, isDragging, timers, textPopups,
                   last, before, ops>>

NextMoves == hasAnyValidMovesCall

SpecMoves == InitMoves /\ [][NextMoves]_vars

-----------------------------------------------------------------------------
(* SpecSnap: findNearestValidPosition(block, targetPos, canPlaceBlockFn)     *)
(* called with the game's canPlaceBlock, on grids holding a few blocks and   *)
(* on grids with a few empty cells                                           *)

\* empty cells of the crowded grids
MaxHoles == 3

\* the grids with at most MaxHoles empty cells
HoleGrids ==
    {[y \in Idx |-> [x \in Idx |-> IF <<x, y>> \in cells THEN 0 ELSE 8]] :
        cells \in {c \in SUBSET (Idx \X Idx) : Cardinality(c) <= MaxHoles}}

\* the shapes of the dragged block: the single cell and the two dominoes
SnapShapes == {1, 2, 3}

InitSnap == InitOn(FitGrids \cup HoleGrids, {<<1, 1>>})

\* one call per run; call records the arguments and the result
findNearestValidPositionCall ==
    /\ call = <<>>
    /\ \E s \in SnapShapes : \E x \in FitAnchors : \E y \in FitAnchors :
        /\ call' = << [shape |-> s, pos |-> Pos(x, y),
                       ret |-> findNearestValidPosition(grid,
                                   [shape |-> s, colorIndex |-> 1, used |-> FALSE],
                                   Pos(x, y))] >>
        /\ UNCHANGED <<engine, last, before, ops>>

NextSnap == findNearestValidPositionCall

SpecSnap == InitSnap /\ [][NextSnap]_vars

-----------------------------------------------------------------------------
(* SpecRefill: whole moves at every anchor, undo and reset, on sets of the   *)
(* vertical domino and the horizontal line of three                          *)

\* moves, undos and resets per run
MaxRefillOps == 4

\* the vertical domino and the horizontal line of three
RefillBlocks == {<<3, colorIndexOf(1)>>, <<4, colorIndexOf(2)>>}

\* the anchors of the moves: every cell of the grid
RefillAnchors == {Pos(x, y) : x \in Idx, y \in Idx}

InitRefill == InitWith(RefillBlocks)

commitPlacementRefill == CommitStep(RefillBlocks, RefillAnchors, MaxRefillOps)

undoRefill == UndoStep(MaxRefillOps)

resetGameRefill == ResetStep(RefillBlocks, MaxRefillOps)

NextRefill ==
    \/ commitPlacementRefill
    \/ undoRefill
    \/ resetGameRefill

SpecRefill == InitRefill /\ [][NextRefill]_vars

-----------------------------------------------------------------------------
(* SpecTimer: selectBlock, placeBlock, undo and resetGame interleaved with   *)
(* the callbacks of the timers that checkGameOver() sets                     *)

\* method calls and timer callbacks per run
MaxTimerOps == 6

InitTimer == InitWith(SampledBlocks)

selectBlockTimer == SelectStep(MaxTimerOps)

placeBlockTimer == PlaceStep(SampledBlocks, MaxTimerOps)

undoTimer == UndoStep(MaxTimerOps)

resetGameTimer == ResetStep(SampledBlocks, MaxTimerOps)

finalScoreTimeoutRuns == TimeoutStep(MaxTimerOps)

NextTimer ==
    \/ selectBlockTimer
    \/ placeBlockTimer
    \/ undoTimer
    \/ resetGameTimer
    \/ finalScoreTimeoutRuns

SpecTimer == InitTimer /\ [][NextTimer]_vars

-----------------------------------------------------------------------------
(* SpecValid: gameLogic.canPlaceBlockAt(grid, block, pos) and the game's     *)
(* canPlaceBlock(block, pos) called with the same block and anchor on the    *)
(* same grid                                                                 *)

InitValid == InitOn(FitGrids, {<<1, 1>>})

\* one pair of calls per run; call records the arguments and both results
validatorsCall ==
    /\ call = <<>>
    /\ \E s \in DOMAIN SHAPES : \E x \in FitAnchors : \E y \in FitAnchors :
        \E block \in {[shape |-> s, colorIndex |-> 1, used |-> FALSE]} :
            /\ call' = << [shape |-> s, pos |-> Pos(x, y),
                           ret  |-> canPlaceBlockAt(grid, block, Pos(x, y)),
                           game |-> canPlaceBlock(grid, block, Pos(x, y))] >>
            /\ UNCHANGED <<engine, last, before, ops>>

NextValid == validatorsCall

SpecValid == InitValid /\ [][NextValid]_vars

-----------------------------------------------------------------------------
(* SpecRotate: the rotating variant of game.js: rotateBlock() called again   *)
(* and again on a block of its catalogue                                     *)

\* calls of rotate() per run
MaxTurns == 6

\* game.js, Block: this.shapes, in source order
LEGACY_SHAPES == <<
    << <<1>> >>,
    << <<1, 1>> >>,
    << <<1>>, <<1>> >>,
    << <<1, 1, 1>> >>,
    << <<1>>, <<1>>, <<1>> >>,
    << <<1, 1>>, <<1, 0>> >>,
    << <<1, 0>>, <<1, 1>> >>,
    << <<1, 1>>, <<0, 1>> >>,
    << <<0, 1>>, <<1, 1>> >>,
    << <<1, 1>>, <<1, 1>> >>,
    << <<1, 1, 1>>, <<0, 1, 0>> >>,
    << <<1, 0>>, <<1, 1>>, <<1, 0>> >>,
    << <<0, 1, 0>>, <<1, 1, 1>> >>,
    << <<0, 1>>, <<1, 1>>, <<0, 1>> >>,
    << <<1, 1, 1>>, <<1, 0, 0>> >>,
    << <<1, 1, 1>>, <<0, 0, 1>> >>,
    << <<1, 0, 0>>, <<1, 1, 1>> >>,
    << <<0, 0, 1>>, <<1, 1, 1>> >>
>>

\* a rotate() that transposes the shape: rotated[x][y] = shape[y][x]
rotate_transposes(shape) ==
    [x \in 1 .. Len(shape[1]) |-> [y \in 1 .. Len(shape) |-> shape[y][x]]]

\* game.js, Block.rotate(): the new this.shape.  rotated has cols rows of rows
\* cells, and rotated[x][rows - 1 - y] = this.shape[y][x]; here indices start
\* at 1, so that cell j of row x comes from row rows - 1 - (j - 1), counted
\* from 0
rotate(shape) ==
    LET rows == Len(shape)
        cols == Len(shape[1])
    IN  [x \in 1 .. cols |-> [j \in 1 .. rows |-> shape[(rows - 1 - (j - 1)) + 1][x]]]

InitRotate == InitOn({EmptyGrid}, {<<1, 1>>})

\* game.js, rotateBlock(): selectedBlock.rotate().  The first call is on a new
\* block, whose shape is one of the catalogue; each later call is on the same
\* block.  call records the shape before and after every call.
rotateBlockCall ==
    /\ Len(call) < MaxTurns
    /\ \E shape \in IF call = <<>>
                     THEN {LEGACY_SHAPES[i] : i \in DOMAIN LEGACY_SHAPES}
                     ELSE {call[Len(call)].ret} :
        call' = Append(call, [shape |-> shape, ret |-> rotate(shape)])
    /\ UNCHANGED <<engine, last, before, ops>>

NextRotate == rotateBlockCall

SpecRotate == InitRotate /\ [][NextRotate]_vars

-----------------------------------------------------------------------------
(* SpecHint: the hint helpers of gameLogic.js, findAllValidPositions(grid,   *)
(* block) and findBestPosition(grid, block), called with any catalogue shape *)
(* on grids holding a few blocks and on grids with a few empty cells         *)

\* the anchors in the order of the loops of findAllValidPositions: y outside
ScanOrder ==
    [k \in 1 .. GRID_SIZE * GRID_SIZE |->
        Pos((k - 1) % GRID_SIZE, (k - 1) \div GRID_SIZE)]

\* gameLogic.findAllValidPositions(grid, block): the array it returns
findAllValidPositions(g, block) ==
    SelectSeq(ScanOrder, LAMBDA p : canPlaceBlockAt(g, block, p))

\* evaluatePosition: testGrid, the copy of the grid with the block written
\* at pos
TestGrid(g, block, pos) ==
    [y \in Idx |-> [x \in Idx |->
        LET shape == SHAPES[block.shape]
            dy == y - pos.y
            dx == x - pos.x
        IN  IF dy >= 0 /\ dy < Len(shape) /\ dx >= 0 /\ dx < Len(shape[dy + 1])
               /\ shape[dy + 1][dx + 1] # 0
            THEN block.colorIndex
            ELSE g[y][x]]]

\* evaluatePosition: adjacentCells, one for every occupied cell of the shape
\* and every direction whose neighbour lies in the grid on a nonzero cell of
\* testGrid
AdjacentCells(testGrid, block, pos) ==
    LET shape == SHAPES[block.shape]
    IN  Cardinality(
            {c \in (0 .. Len(shape[1]) - 1) \X (0 .. Len(shape) - 1) \X
                   {<<0 - 1, 0>>, <<1, 0>>, <<0, 0 - 1>>, <<0, 1>>} :
                /\ shape[c[2] + 1][c[1] + 1] # 0
                /\ LET nx == pos.x + c[1] + c[3][1]
                       ny == pos.y + c[2] + c[3][2]
                   IN  /\ nx >= 0 /\ nx < GRID_SIZE
                       /\ ny >= 0 /\ ny < GRID_SIZE
                       /\ testGrid[ny][nx] # 0})

\* gameLogic.evaluatePosition(grid, block, pos) at a valid position
evaluatePosition(g, block, pos) ==
    LET testGrid == TestGrid(g, block, pos)
        linesCompleted ==
            Cardinality({y \in Idx : \A x \in Idx : testGrid[y][x] # 0}) +
            Cardinality({x \in Idx : \A y \in Idx : testGrid[y][x] # 0})
    IN  linesCompleted * 100 + AdjacentCells(testGrid, block, pos) * 5 + pos.y * 2

\* a comparison that also takes a position of equal score
Better_orEqual(sc, bestScore) == sc >= bestScore

\* findBestPosition: if (score > bestScore)
Better(sc, bestScore) == sc > bestScore

RECURSIVE BestFrom(_, _, _, _, _)
\* findBestPosition: the loop over validPositions from index i on (counted
\* from 1), with the best position and score so far; what it returns
BestFrom(g, block, validPositions, i, best) ==
    IF i > Len(validPositions) THEN best
    ELSE LET sc == evaluatePosition(g, block, validPositions[i])
         IN  BestFrom(g, block, validPositions, i + 1,
                      IF Better(sc, best.score)
                      THEN [position |-> validPositions[i], score |-> sc]
                      ELSE best)

\* gameLogic.findBestPosition(grid, block): <<>> for null, else <<the object
\* {position, score} it returns>>
findBestPosition(g, block) ==
    LET validPositions == findAllValidPositions(g, block)
    IN  IF Len(validPositions) = 0 THEN <<>>
        ELSE << BestFrom(g, block, validPositions, 2,
                         [position |-> validPositions[1],
                          score |-> evaluatePosition(g, block, validPositions[1])]) >>

InitHint == InitOn(FitGrids \cup HoleGrids, {<<1, 1>>})

\* one call of each helper per run, on the same grid and block; call records
\* the block and both results
hintCall ==
    /\ call = <<>>
    /\ \E s \in DOMAIN SHAPES :
        \E block \in {[shape |-> s, colorIndex |-> 1, used |-> FALSE]} :
            /\ call' = << [shape |-> s,
                           all  |-> findAllValidPositions(grid, block),
                           ret  |-> findBestPosition(grid, block)] >>
            /\ UNCHANGED <<engine, last, before, ops>>

NextHint == hintCall

SpecHint == InitHint /\ [][NextHint]_vars

-----------------------------------------------------------------------------
(* The statements of the specification, in its own terms *)

\* the occupied cells of a shape mask, as offsets <<dx, dy>>
OccupiedCells(shape) ==
    {c \in (0 .. Cols(shape) - 1) \X (0 .. Rows(shape) - 1) : shape[c[2] + 1][c[1] + 1] # 0}

\* Grid.fits(shape, anchorX, anchorY)
Fits(g, shape, ax, ay) ==
    \A c \in OccupiedCells(shape) :
        /\ 0 <= ax + c[1] /\ ax + c[1] < GRID_SIZE
        /\ 0 <= ay + c[2] /\ ay + c[2] < GRID_SIZE
        /\ g[ay + c[2]][ax + c[1]] = 0

\* some unused block of the set fits at some anchor of the grid
SomeMove(g, avail) ==
    \E i \in Slots :
        /\ ~avail[i].used
        /\ \E ax \in Idx : \E ay \in Idx : Fits(g, SHAPES[avail[i].shape], ax, ay)

\* the used flags of the available set
UsedFlags(avail) == [i \in Slots |-> avail[i].used]

\* a snapshot is held and not consumed: a block was placed since the last
\* reset and undo() was not called since
SnapshotHeld == before # <<>> /\ last.undos = 0

PlaceOps == {"placeBlock", "tryPlaceBlock"}

\* C1: undo() called right after a successful placement restores grid, score
\* and linesCleared to their values just before that placement, and the placed
\* block is unused again, whether or not the placement cleared lines.
C1_UndoRestoresPlacement ==
    (last.op = "undo" /\ last.prev.placed) =>
        /\ grid = before[1].grid
        /\ score = before[1].score
        /\ linesCleared = before[1].linesCleared
        /\ ~Deref(availableBlocks, oldBlock, draggedBlock).used

\* an undo() right after a placement that cleared lines
C1_Witness == last.op = "undo" /\ last.prev.placed /\ last.prev.lines > 0

\* C2: undo() leaves the whole engine state unchanged when no unconsumed
\* snapshot is held: before the first placement, after a reset, and on a second
\* undo() with no placement in between.
C2_UndoNoOpWithoutSnapshot ==
    [][(last'.op = "undo" /\ ~SnapshotHeld) => UNCHANGED engine]_vars

\* a second undo() after a placement
C2_Witness == last.op = "undo" /\ last.undos = 2 /\ before # <<>>

\* C3: once gameOver is true, every placement attempt is rejected and no
\* operation other than reset changes grid, score, linesCleared or the used
\* flags.
C3_GameOverTerminal ==
    [][(gameOver /\ last'.op # "resetGame") =>
            /\ ~last'.placed
            /\ grid' = grid
            /\ score' = score
            /\ linesCleared' = linesCleared
            /\ UsedFlags(availableBlocks') = UsedFlags(availableBlocks)]_vars

\* C4: after any successful undo(), gameOver is false.
C4_UndoLeavesGameOver ==
    [][(last'.op = "undo" /\ SnapshotHeld) => ~gameOver']_vars

\* C5: a successful placement made while gameOver is false sets gameOver
\* exactly when no unused block of the (possibly refilled) set fits at any
\* anchor of the grid it leaves; the refill comes before this evaluation.
C5_GameOverEvaluated ==
    [][(last'.placed /\ ~gameOver) =>
            (gameOver' <=> ~SomeMove(grid', availableBlocks'))]_vars

\* a placement used up the third block, the set was refilled, the game goes on
C5_Witness == last.placed /\ last.refilled /\ ~gameOver

\* the block a placement step has just placed
Placed == Deref(availableBlocks, oldBlock, draggedBlock)

\* the grid with the occupied cells of a shape anchored at <<ax, ay>> set to color
Written(g, shape, ax, ay, color) ==
    [y \in Idx |-> [x \in Idx |->
        IF <<x - ax, y - ay>> \in OccupiedCells(shape) THEN color ELSE g[y][x]]]

FullRows(g) == {y \in Idx : \A x \in Idx : g[y][x] # 0}

FullCols(g) == {x \in Idx : \A y \in Idx : g[y][x] # 0}

\* every cell of the given rows and columns set to 0, the others kept
Zeroed(g, rows, cols) ==
    [y \in Idx |-> [x \in Idx |-> IF y \in rows \/ x \in cols THEN 0 ELSE g[y][x]]]

\* m(n) of the scoring rule
M(n) == IF n = 1 THEN 1 ELSE IF n = 2 THEN 3 ELSE IF n = 3 THEN 6
        ELSE IF n = 4 THEN 10 ELSE 15

\* the grid the last placement left before any line was cleared: the grid it
\* started from with the placed block written at the cursor
WrittenBefore ==
    Written(before[1].grid, SHAPES[Placed.shape], cursorPos.x, cursorPos.y,
            Placed.colorIndex)

\* C6: after every placement that clears at least one line,
\* level = floor(linesCleared / 10) + 1.
C6_LevelFollowsLines ==
    (last.placed /\ last.lines > 0) => level = (linesCleared \div 10) + 1

\* C7: a placement that clears n >= 1 lines adds 100 * m(n) * level to the
\* score, with the level before the placement, and n to linesCleared; a
\* placement that clears no line leaves both unchanged.
C7_ScoreOfPlacement ==
    last.placed =>
        LET w == WrittenBefore
            n == Cardinality(FullRows(w)) + Cardinality(FullCols(w))
        IN  /\ n = last.lines
            /\ score = IF n >= 1
                       THEN before[1].score + 100 * M(n) * before[1].level
                       ELSE before[1].score
            /\ linesCleared = before[1].linesCleared + n

\* a placement that cleared five lines or more
C7_Witness == last.placed /\ last.lines >= 5

\* C8: full rows and full columns are detected together on the grid the
\* placement has written; every cell of every detected line becomes 0 and every
\* other cell keeps its value; each line counts once, so that a row and a
\* column that cross count as two lines and score 100 * 3 * level.
C8_SimultaneousClear ==
    last.placed =>
        LET w    == WrittenBefore
            rows == FullRows(w)
            cols == FullCols(w)
        IN  /\ grid = Zeroed(w, rows, cols)
            /\ linesCleared = before[1].linesCleared + Cardinality(rows) + Cardinality(cols)
            /\ (Cardinality(rows) = 1 /\ Cardinality(cols) = 1) =>
                    score = before[1].score + 100 * 3 * before[1].level

\* a placement that completed one row and one column crossing it
C8_Witness ==
    /\ last.placed
    /\ Cardinality(FullRows(WrittenBefore)) = 1
    /\ Cardinality(FullCols(WrittenBefore)) = 1

\* a placement attempt that must be rejected: no block held, a used block, or
\* a block that does not fit at the cursor
MustReject ==
    \/ draggedBlock = NULL
    \/ Placed.used
    \/ ~Fits(grid, SHAPES[Placed.shape], cursorPos.x, cursorPos.y)

\* C9: a rejected placement changes nothing: grid, score, linesCleared, level,
\* used flags, available set, gameOver and the undo snapshot stay as they were.
C9_RejectedPlacementChangesNothing ==
    [][(last'.op \in PlaceOps /\ MustReject) => (~last'.placed /\ UNCHANGED engine)]_vars

\* a placement of an unused block rejected because it does not fit at the cursor
C9_Witness ==
    /\ last.op \in PlaceOps /\ ~last.placed
    /\ draggedBlock # NULL /\ ~Placed.used
    /\ ~Fits(grid, SHAPES[Placed.shape], cursorPos.x, cursorPos.y)

\* C10: canPlaceBlock(block, pos) is true exactly when every occupied cell of
\* the shape lies in the grid on an empty cell, whatever lies under the empty
\* cells of the mask; a shape with an occupied cell at offset (1,0) or (0,1) is
\* rejected at anchor (N-1, N-1).
C10_CanPlaceIffFits ==
    call # <<>> =>
        LET shape == SHAPES[call[1].shape]
            pos   == call[1].pos
        IN  /\ call[1].ret <=> Fits(grid, shape, pos.x, pos.y)
            /\ (/\ pos = Pos(GRID_SIZE - 1, GRID_SIZE - 1)
                /\ {<<1, 0>>, <<0, 1>>} \cap OccupiedCells(shape) # {}) => ~call[1].ret

\* a call that returned true with an empty cell of the mask over an occupied
\* cell of the grid
C10_Witness ==
    /\ call # <<>>
    /\ call[1].ret
    /\ LET shape == SHAPES[call[1].shape]
           pos   == call[1].pos
       IN  \E dx \in 0 .. Cols(shape) - 1 : \E dy \in 0 .. Rows(shape) - 1 :
                /\ shape[dy + 1][dx + 1] = 0
                /\ pos.x + dx \in Idx /\ pos.y + dy \in Idx
                /\ grid[pos.y + dy][pos.x + dx] # 0

\* the available set is the same set of block objects, with at most the used
\* flag of one of them changed
SameSet(old, new) ==
    \/ new = old
    \/ \E i \in Slots : new = [old EXCEPT ![i].used = ~old[i].used]

\* C11: the available set always holds exactly 3 blocks, at least one of them
\* unused; outside reset it is replaced only by a placement of its last unused
\* block, and then by 3 blocks that are all unused.
C11_SetNeverPartiallyRefilled ==
    /\ [](/\ DOMAIN availableBlocks = Slots
          /\ Cardinality(Slots) = 3
          /\ \E i \in Slots : ~availableBlocks[i].used)
    /\ [][last'.op # "resetGame" =>
            \/ SameSet(availableBlocks, availableBlocks')
            \/ /\ last'.placed
               /\ draggedBlock \in Slots
               /\ ~availableBlocks[draggedBlock].used
               /\ \A i \in Slots \ {draggedBlock} : availableBlocks[i].used
               /\ \A i \in Slots : ~availableBlocks'[i].used]_vars

\* a placement of the last unused block has replaced the set by 3 unused blocks
C11_Witness ==
    /\ last.placed
    /\ Cardinality({i \in Slots : before[1].availableBlocks[i].used}) = 2
    /\ \A i \in Slots : ~availableBlocks[i].used

\* C12: every grid cell holds 0 or a colour id in 1..8; a placement writes only
\* where the block fits on the grid it starts from, so that every nonzero cell
\* it leaves either was there before it, unchanged, or is an occupied cell of
\* the placed block in the block's colour; undo puts the grid of before the
\* placement back and reset empties the grid.
C12_CellsWrittenByValidPlacements ==
    /\ \A y \in Idx : \A x \in Idx : grid[y][x] \in 0 .. 8
    /\ last.placed =>
        /\ Fits(before[1].grid, SHAPES[Placed.shape], cursorPos.x, cursorPos.y)
        /\ \A y \in Idx : \A x \in Idx :
            grid[y][x] # 0 =>
                IF <<x - cursorPos.x, y - cursorPos.y>> \in OccupiedCells(SHAPES[Placed.shape])
                THEN grid[y][x] = Placed.colorIndex /\ before[1].grid[y][x] = 0
                ELSE grid[y][x] = before[1].grid[y][x]
    /\ (last.op = "undo" /\ last.undos = 1 /\ before # <<>>) => grid = before[1].grid
    /\ last.op = "resetGame" => grid = EmptyGrid

\* a placement on a grid that held blocks has left cells of colour 8, some
\* its own and some older
C12_Witness ==
    /\ last.placed
    /\ \E y \in Idx : \E x \in Idx : grid[y][x] = 8 /\ before[1].grid[y][x] = 0
    /\ \E y \in Idx : \E x \in Idx : grid[y][x] = 8 /\ before[1].grid[y][x] = 8

\* C13: gameOver becomes true only at the end of a successful placement that
\* leaves no unused block of the set with an anchor where it fits, and once
\* true it stays true until reset, so that it becomes true at most once between
\* two resets.
C13_GameOverSetOnce ==
    [][/\ (~gameOver /\ gameOver') =>
            (last'.placed /\ ~SomeMove(grid', availableBlocks'))
       /\ (gameOver /\ ~gameOver') => last'.op = "resetGame"]_vars

\* a placement has just ended the game
C13_Witness ==
    gameOver /\ last.placed /\ ~SomeMove(grid, availableBlocks) /\ last.undos = 0

\* C14: from the state in which gameOver becomes true until the next reset,
\* score and linesCleared never change, whatever operation is invoked.
C14_ScoreFrozenInGameOver ==
    [][(gameOver /\ last'.op # "resetGame") =>
            (score' = score /\ linesCleared' = linesCleared)]_vars

\* C15: reset, from any state, leaves score 0, level 1, linesCleared 0,
\* gameOver false, an all-zero grid, no selected block, no undo available (a
\* following undo() changes nothing) and a set of 3 unused blocks that no
\* reference held before the reset points to.
C15_ResetReinitializes ==
    last.op = "resetGame" =>
        /\ score = 0 /\ level = 1 /\ linesCleared = 0
        /\ ~gameOver
        /\ grid = [y \in Idx |-> [x \in Idx |-> 0]]
        /\ selectedBlock = 0 - 1 /\ selectedBlockIndex = 0 - 1
        /\ ~canUndo /\ lastPlacement = <<>> /\ before = <<>>
        /\ undoMethod(Cur) = Cur
        /\ DOMAIN availableBlocks = Slots
        /\ \A i \in Slots : ~availableBlocks[i].used
        /\ draggedBlock \notin Slots

\* a reset of a game that was over, right after the placement that ended it,
\* when an undo was available
C15_Witness ==
    last.op = "resetGame" /\ last.prev.placed /\ last.prev.gameOver

\* C16: hasAnyValidMoves(grid, blocks) returns true when every block is used;
\* otherwise it returns true exactly when some unused block fits at some anchor
\* (x, y) with 0 <= x, y < N.
C16_HasAnyValidMoves ==
    \A i \in 1 .. Len(call) :
        LET blocks == call[i].blocks
        IN  IF \A b \in Slots : blocks[b].used
            THEN call[i].ret
            ELSE call[i].ret <=> SomeMove(call[i].grid, blocks)

\* a call that returned false for a set with an unused block, and one that
\* returned true for a set of used blocks on the same grid
C16_Witness ==
    /\ call # <<>>
    /\ ~call[1].ret
    /\ \E b \in Slots : ~call[1].blocks[b].used
    /\ hasAnyValidMoves(grid, [b \in Slots |-> [availableBlocks[b] EXCEPT !.used = TRUE]])

C17_PlacementWithoutClear ==
    (last.placed /\ FullRows(WrittenBefore) = {} /\ FullCols(WrittenBefore) = {}) =>
        LET set == before[1].availableBlocks
        IN  /\ grid = WrittenBefore
            /\ Placed.used
            /\ IF draggedBlock \in Slots
               THEN /\ ~set[draggedBlock].used
                    /\ availableBlocks = [set EXCEPT ![draggedBlock].used = TRUE]
               ELSE \/ availableBlocks = set
                    \/ /\ Cardinality({i \in Slots : set[i].used}) = 2
                       /\ \A i \in Slots : ~availableBlocks[i].used
            /\ selectedBlock = 0 - 1
            /\ selectedBlockIndex = 0 - 1
            /\ score = before[1].score
            /\ linesCleared = before[1].linesCleared
            /\ level = before[1].level

\* a block placed next to older cells without completing a line
C17_Witness ==
    /\ last.placed /\ last.lines = 0
    /\ before[1].grid # EmptyGrid
    /\ grid = WrittenBefore
    /\ draggedBlock \in Slots

\* C18: in every state, selectBlock(index) changes nothing when index is
\* outside 0..2 or the block at index is used; otherwise it makes that block
\* the selected block and the block of the next placement attempt, and changes
\* neither grid, score, linesCleared, level, the blocks and their used flags,
\* gameOver, the cursor nor the undo snapshot.
C18_SelectBlock ==
    \A index \in (0 - 2) .. 4 :
        LET r == selectBlockMethod(Cur, index)
        IN  IF index \notin 0 .. 2 \/ availableBlocks[index].used
            THEN r = Cur
            ELSE /\ r.selectedBlock = index
                 /\ r.selectedBlockIndex = index
                 /\ r.draggedBlock = index
                 /\ r.grid = grid /\ r.score = score
                 /\ r.linesCleared = linesCleared /\ r.level = level
                 /\ r.availableBlocks = availableBlocks
                 /\ r.gameOver = gameOver /\ r.cursorPos = cursorPos
                 /\ r.lastPlacement = lastPlacement /\ r.canUndo = canUndo

\* selectBlock has selected an unused block of a set that holds a used block,
\* while an undo snapshot is held
C18_Witness ==
    /\ last.op = "selectBlock"
    /\ selectedBlockIndex \in Slots
    /\ selectedBlock = selectedBlockIndex /\ draggedBlock = selectedBlockIndex
    /\ ~availableBlocks[selectedBlockIndex].used
    /\ \E i \in Slots : availableBlocks[i].used
    /\ canUndo

\* C20: whenever a block is selected (selectedBlock set and unused) and fits
\* at the cursor, a Space or Enter key event places a block.
C20_KeyboardPlacesSelectedBlock ==
    [][(/\ last'.op = "keyPlace"
        /\ selectedBlock # 0 - 1
        /\ ~Deref(availableBlocks, oldBlock, selectedBlock).used
        /\ Fits(grid, SHAPES[Deref(availableBlocks, oldBlock, selectedBlock).shape],
                cursorPos.x, cursorPos.y))
            => last'.placed]_vars

\* the anchors at Manhattan distance d of the target of the recorded call at
\* which the block of the call can be placed
ValidAtDistance(d) ==
    LET t == call[1].pos
        block == [shape |-> call[1].shape, colorIndex |-> 1, used |-> FALSE]
    IN  {p \in {Pos(x, y) : x \in (t.x - d) .. (t.x + d), y \in (t.y - d) .. (t.y + d)} :
            /\ Abs(p.x - t.x) + Abs(p.y - t.y) = d
            /\ canPlaceBlock(grid, block, p)}

\* dx * dx + dy * dy of an anchor from the target of the recorded call
SquaredDistance(p) ==
    (p.x - call[1].pos.x) * (p.x - call[1].pos.x) +
    (p.y - call[1].pos.y) * (p.y - call[1].pos.y)

\* C21: findNearestValidPosition returns a valid anchor at the smallest
\* Manhattan distance d in {1, 2, 3} from the target at which a valid anchor
\* exists, with the least dx*dx + dy*dy among the valid anchors at that
\* distance; it returns null iff no anchor at distance 1..3 is valid, and it
\* never returns the target.
C21_SnapToNearest ==
    call # <<>> =>
        LET ret == call[1].ret
            D == {d \in 1 .. 3 : ValidAtDistance(d) # {}}
        IN  /\ ret = <<>> <=> D = {}
            /\ ret # <<>> =>
                /\ ret[1] # call[1].pos
                /\ \E d \in D :
                    /\ \A e \in D : d <= e
                    /\ ret[1] \in ValidAtDistance(d)
                    /\ \A q \in ValidAtDistance(d) :
                            SquaredDistance(ret[1]) <= SquaredDistance(q)

\* a call that found nothing at distance 1 and returned, at distance 2, an
\* anchor that the loops met after a valid anchor farther from the target
C21_Witness ==
    /\ call # <<>>
    /\ call[1].ret # <<>>
    /\ ValidAtDistance(1) = {}
    /\ \E q \in ValidAtDistance(2) :
        /\ SquaredDistance(call[1].ret[1]) < SquaredDistance(q)
        /\ q.y < call[1].ret[1].y

\* C22: the undo slot refers to the most recent successful placement: an
\* undo() after placements p1 then p2 restores grid, score and linesCleared to
\* their values right before p2, a further undo() does not revert p1, and a
\* rejected placement attempt between p2 and the undo() changes nothing of it.
C22_UndoSlotIsLastPlacement ==
    (last.op = "undo" /\ before # <<>>) =>
        /\ grid = before[1].grid
        /\ score = before[1].score
        /\ linesCleared = before[1].linesCleared

\* the first undo() since placement p2, right after a rejected placement
\* attempt, where p2 started from a grid holding the block of p1
C22_Witness ==
    /\ last.op = "undo"
    /\ last.undos = 1
    /\ ~last.prev.placed
    /\ before # <<>>
    /\ before[1].grid # EmptyGrid
    /\ grid = before[1].grid

\* C23: in every state reached by select, place, undo and reset, if gameOver
\* is false then some unused block of the available set fits at some anchor
\* of the grid.
C23_NoSilentDeadEnd == ~gameOver => SomeMove(grid, availableBlocks)

\* C24: after undoing a placement the available set consists of the three
\* blocks offered just before that placement, same shapes and colours in the
\* same slots, the placed block unused again, also when the placement used
\* the third block of its set and triggered a refill.
C24_UndoRestoresAvailableSet ==
    (last.op = "undo" /\ last.prev.placed) =>
        availableBlocks = before[1].availableBlocks

\* C25: every successful placement places a block that is at that moment a
\* member of the available set, and the blockIndex of the undo snapshot is the
\* index of that block in the set; a block that a refill or a reset replaced
\* is never written to the grid.
C25_PlacedBlockIsInSet ==
    [][last'.placed =>
        /\ draggedBlock \in Slots
        /\ lastPlacement'[1].blockIndex = draggedBlock]_vars

\* C26: in every state between operations, after any sequence of place, undo
\* and reset, the grid has no fully occupied row and no fully occupied column.
C26_NoFullLineBetweenOperations == FullRows(grid) = {} /\ FullCols(grid) = {}

\* an undo() of a placement that cleared lines has put back a grid that holds
\* blocks
C26_Witness ==
    /\ last.op = "undo"
    /\ last.prev.placed
    /\ last.prev.lines > 0
    /\ grid # EmptyGrid

\* C27: under every interleaving of the timer callback with undo and reset,
\* the final-score readout shows the score held when gameOver became true, and
\* no readout is created in a game whose gameOver flag is false.
C27_FinalScoreReadout ==
    [][last'.op = "finalScoreTimeout" =>
        /\ gameOver
        /\ textPopups'[Len(textPopups')] = Head(timers).held]_vars

\* C28: for every grid, every block with a shape and every anchor, in the
\* grid or not, gameLogic.canPlaceBlockAt(grid, block, pos) equals
\* canPlaceBlock(block, pos) on the same grid; the anchors that canPlaceBlock
\* accepts are anchors of the grid, which the scan of game-over detection
\* visits.
C28_ValidatorsAgree ==
    call # <<>> =>
        /\ call[1].ret <=> call[1].game
        /\ call[1].game => (call[1].pos.x \in Idx /\ call[1].pos.y \in Idx)

\* both accept an anchor where an empty cell of the mask lies over an occupied
\* cell of the grid
C28_Witness ==
    /\ call # <<>>
    /\ call[1].ret
    /\ call[1].game
    /\ LET shape == SHAPES[call[1].shape]
           pos   == call[1].pos
       IN  \E dx \in 0 .. Cols(shape) - 1 : \E dy \in 0 .. Rows(shape) - 1 :
                /\ shape[dy + 1][dx + 1] = 0
                /\ grid[pos.y + dy][pos.x + dx] # 0

\* the number of occupied cells of a shape mask
CellCount(shape) == Cardinality(OccupiedCells(shape))

\* C29: in the rotating variant Block.rotate() is the clockwise quarter turn
\* rotated[x][rows-1-y] = shape[y][x]: it swaps the numbers of rows and
\* columns of the shape, keeps the number of occupied cells, and four calls
\* in a row give back the original mask, for every shape of the catalogue.
C29_RotateIsQuarterTurn ==
    \A k \in 1 .. Len(call) :
        LET shape   == call[k].shape
            rotated == call[k].ret
            rows    == Len(shape)
            cols    == Len(shape[1])
        IN  /\ Len(rotated) = cols
            /\ \A x \in 0 .. cols - 1 : Len(rotated[x + 1]) = rows
            /\ \A y \in 0 .. rows - 1 : \A x \in 0 .. cols - 1 :
                    rotated[x + 1][(rows - 1 - y) + 1] = shape[y + 1][x + 1]
            /\ CellCount(rotated) = CellCount(shape)
            /\ k >= 4 => rotated = call[k - 3].shape

\* four calls on a shape with more columns than rows, which the first call
\* changed
C29_Witness ==
    /\ Len(call) >= 4
    /\ Len(call[1].shape[1]) > Len(call[1].shape)
    /\ call[1].ret # call[1].shape
    /\ call[2].ret # call[1].shape
    /\ call[4].ret = call[1].shape

\* the rank of an anchor in row-major order
RowMajor(p) == p.y * GRID_SIZE + p.x

\* C30: findAllValidPositions returns exactly the anchors at which
\* canPlaceBlockAt is true, in row-major order; findBestPosition returns null
\* iff that list is empty, which for an unused block is iff
\* hasAnyValidMoves(grid, [block]) is false, and otherwise a position of the
\* list whose evaluatePosition score is maximal, the first such position in
\* row-major order on ties.
C30_HintHelpersAgree ==
    call # <<>> =>
        LET block == [shape |-> call[1].shape, colorIndex |-> 1, used |-> FALSE]
            all   == call[1].all
            ret   == call[1].ret
            Score(p) == evaluatePosition(grid, block, p)
        IN  /\ {all[i] : i \in 1 .. Len(all)} =
                    {p \in {Pos(x, y) : x \in Idx, y \in Idx} :
                        canPlaceBlockAt(grid, block, p)}
            /\ \A i \in 1 .. Len(all) : \A j \in 1 .. Len(all) :
                    i < j => RowMajor(all[i]) < RowMajor(all[j])
            /\ ret = <<>> <=> all = <<>>
            /\ ret = <<>> <=> ~hasAnyValidMoves(grid, << block >>)
            /\ ret # <<>> =>
                    \E i \in 1 .. Len(all) :
                        /\ ret[1].position = all[i]
                        /\ \A j \in 1 .. Len(all) : Score(all[j]) <= Score(all[i])
                        /\ \A j \in 1 .. i - 1 : Score(all[j]) < Score(all[i])

\* the best position is not the first of the list, and a later position of
\* the list has the same score
C30_Witness ==
    /\ call # <<>>
    /\ call[1].ret # <<>>
    /\ call[1].ret[1].position # call[1].all[1]
    /\ LET block == [shape |-> call[1].shape, colorIndex |-> 1, used |-> FALSE]
       IN  \E j \in 1 .. Len(call[1].all) :
                /\ RowMajor(call[1].all[j]) > RowMajor(call[1].ret[1].position)
                /\ evaluatePosition(grid, block, call[1].all[j]) = call[1].ret[1].score

====
